---- MODULE Spec2Model ----
(***************************************************************************)
(* A model of bilby/core/utils/calculus.py:                                *)
(*   derivatives       iterated central differences with a convergence test*)
(*   logtrapzexp       trapezium rule on the logarithm of a function       *)
(*   UnsortedInterp2d  pairwise evaluation of a fitted 2-d spline          *)
(* Floating point numbers are modelled by exact rationals <<n, d>> in      *)
(* lowest terms with d > 0, of bounded magnitude in derivatives.           *)
(***************************************************************************)
EXTENDS Integers, Sequences, FiniteSets, TLC

\* Largest len(vals) of a derivatives call.
MaxLen == 2

\* Largest len(nonfixedidx) of a derivatives call.
MaxIdx == 2

(***************************************************************************)
(* Rational arithmetic (Python floats, taken as exact).                    *)
(***************************************************************************)
Abs(a) == IF a < 0 THEN -a ELSE a

RECURSIVE GCD(_, _)
GCD(a, b) == IF b = 0 THEN a ELSE GCD(b, a % b)

\* The rational n/d (d # 0) in lowest terms with a positive denominator.
R(n, d) ==
    LET g == GCD(Abs(n), Abs(d))
        s == IF d < 0 THEN -1 ELSE 1
    IN  <<(s * n) \div g, (s * d) \div g>>

Zero == R(0, 1)
One == R(1, 1)
Half == R(1, 2)

RNeg(a) == <<-a[1], a[2]>>
RAbs(a) == <<Abs(a[1]), a[2]>>

RAdd(a, b) ==
    LET g == GCD(a[2], b[2])
    IN  R(a[1] * (b[2] \div g) + b[1] * (a[2] \div g), (a[2] \div g) * b[2])

RSub(a, b) == RAdd(a, RNeg(b))

RMul(a, b) ==
    LET g1 == GCD(Abs(a[1]), b[2])
        g2 == GCD(Abs(b[1]), a[2])
    IN  IF a[1] = 0 \/ b[1] = 0 THEN Zero
        ELSE R((a[1] \div g1) * (b[1] \div g2), (a[2] \div g2) * (b[2] \div g1))

\* a / b for b # 0.
RDiv(a, b) == RMul(a, IF b[1] < 0 THEN <<-b[2], -b[1]>> ELSE <<b[2], b[1]>>)

RLt(a, b) == RSub(a, b)[1] < 0

RECURSIVE RSum(_)
RSum(s) == IF s = <<>> THEN Zero ELSE RAdd(Head(s), RSum(Tail(s)))

(***************************************************************************)
(* derivatives(vals, func, releps, abseps, mineps, reltol, epsscale,       *)
(*             nonfixedidx)                                                *)
(***************************************************************************)
VARIABLES
    vals,         \* the point, a sequence of floats
    func,         \* the objective, one of Funcs
    releps,       \* a step argument: [type, s, l]
    abseps,       \* a step argument, type "None" when not supplied
    mineps, reltol, epsscale,
    nonfixedidx,  \* [isNone, v]: None, or a sequence of 0-based indices
    grads, eps, teps, count,
    it,           \* how many items the for loop has taken from nonfixedidx
    i, leps, cureps, flipflop, fvals, bvals, cdiff,
    pc,           \* "validate", "for", "while", "done" or "raised"
    raised,       \* the exception type that ended the call, or "none"
    nevals,       \* how many times func has been called
    ievals,       \* how many of these calls the loop of index i made
    nwarn         \* how many times logger.warning has been called

dvars == <<vals, func, releps, abseps, mineps, reltol, epsscale, nonfixedidx,
           grads, eps, teps, count, it, i, leps, cureps, flipflop, fvals,
           bvals, cdiff, pc, raised, nevals, ievals, nwarn>>

\* The state of a call of logtrapzexp(lnf, dx).
VARIABLES
    lnf,      \* the samples, a sequence of log-domain floats
    dx,       \* the step argument: [type, s, l]
    tpc,      \* "call", "done" or "raised"
    traised,  \* the exception type that ended the call, or "none"
    tresult   \* the returned value: [set, ln]

tvars == <<lnf, dx, tpc, traised, tresult>>

\* The state of a call of UnsortedInterp2d.__call__(x, y).
VARIABLES
    xin, yin,   \* x and y as passed in
    x, y,       \* x and y as the call rebinds them
    output,     \* the value being built and returned
    ier,        \* the status of the spline evaluator
    ipc,        \* "sanitize", "evaluate", "check", "done" or "raised"
    iraised,    \* <<exception type, message>>, or <<"none", "">>
    errshapes,  \* the shapes the shape error names
    calls       \* the (x, y) arguments of every bispeu call so far

ivars == <<xin, yin, x, y, output, ier, ipc, iraised, errshapes, calls>>

\* What a call of derivatives leaves alone.
notD == <<tvars, ivars>>

\* What a call of logtrapzexp leaves alone.
notT == <<dvars, ivars>>

\* What a call of UnsortedInterp2d leaves alone.
notI == <<dvars, tvars>>

RECURSIVE Pow2(_)
Pow2(k) == IF k = 0 THEN 1 ELSE 2 * Pow2(k - 1)

\* Sequences over S of length at most n.
SeqUpTo(S, n) == UNION {[1..m -> S] : m \in 0..n}

\* Python lists are 0-based: a[k] of the source is At(a, k).
At(a, k) == a[k + 1]

Put(a, k, v) == [a EXCEPT ![k + 1] = v]

len(a) == Len(a)

range(n) == [k \in 1..n |-> k - 1]

RECURSIVE max(_)
max(a) == IF Len(a) = 1 THEN a[1]
          ELSE LET m == max(Tail(a)) IN IF a[1] > m THEN a[1] ELSE m

RECURSIVE min(_)
min(a) == IF Len(a) = 1 THEN a[1]
          ELSE LET m == min(Tail(a)) IN IF a[1] < m THEN a[1] ELSE m

\* The objectives the model calls derivatives with. Each is a sum of one
\* term per coordinate: a linear form a.v, a cubic, and a function whose
\* central difference changes sign every time the step is halved.
Funcs == {"Linear", "Cubic", "Osc"}

\* The coefficient a[j] of the linear objective.
Coef(j) == R(2 * j - 3, 2)

RECURSIVE Log2(_)
Log2(n) == IF n <= 1 THEN 0 ELSE 1 + Log2(n \div 2)

(***************************************************************************)
(* Floats of bounded magnitude. A finite float is a rational; inf, -inf    *)
(* and nan are the pairs with denominator zero. A result whose binary      *)
(* exponent is above MaxExp overflows to an infinity and one whose         *)
(* exponent is below -MaxExp underflows to zero, as the doubles of numpy   *)
(* do at 2^1024 and 2^-1075. Arithmetic is numpy's: dividing by zero       *)
(* gives an infinity or nan, and every comparison with nan is false.       *)
(***************************************************************************)
\* The largest binary exponent of a finite float.
MaxExp == 24

Inf == <<1, 0>>
NegInf == <<-1, 0>>
NaN == <<0, 0>>

\* np.isfinite
isfinite(a) == a[2] # 0

\* The infinity of the sign of the integer s.
Signed(s) == IF s < 0 THEN NegInf ELSE Inf

\* The binary exponent of a finite non-zero float, to within one.
Mag(a) == Log2(Abs(a[1])) - Log2(a[2])

\* The float an exact finite result q is stored as.
Float(q) ==
    IF q[1] = 0 THEN Zero
    ELSE IF Mag(q) > MaxExp THEN Signed(q[1])
    ELSE IF Mag(q) < -MaxExp THEN Zero
    ELSE q

FNeg(a) == <<-a[1], a[2]>>
FAbs(a) == <<Abs(a[1]), a[2]>>

\* a + b
FAdd(a, b) ==
    IF a = NaN \/ b = NaN THEN NaN
    ELSE IF ~isfinite(a) THEN (IF ~isfinite(b) /\ a # b THEN NaN ELSE a)
    ELSE IF ~isfinite(b) THEN b
    ELSE Float(RAdd(a, b))

\* a - b
FSub(a, b) == FAdd(a, FNeg(b))

\* a * b. The exponents are added first so that a product out of range
\* is never formed.
FMul(a, b) ==
    IF a = NaN \/ b = NaN THEN NaN
    ELSE IF ~isfinite(a) \/ ~isfinite(b)
    THEN (IF a[1] = 0 \/ b[1] = 0 THEN NaN ELSE Signed(a[1] * b[1]))
    ELSE IF a[1] = 0 \/ b[1] = 0 THEN Zero
    ELSE IF Mag(a) + Mag(b) > MaxExp + 2 THEN Signed(a[1] * b[1])
    ELSE IF Mag(a) + Mag(b) < -MaxExp - 2 THEN Zero
    ELSE Float(RMul(a, b))

\* a / b
FDiv(a, b) ==
    IF a = NaN \/ b = NaN THEN NaN
    ELSE IF ~isfinite(b) THEN (IF isfinite(a) THEN Zero ELSE NaN)
    ELSE IF b[1] = 0 THEN (IF a[1] = 0 THEN NaN ELSE Signed(a[1]))
    ELSE FMul(a, IF b[1] < 0 THEN <<-b[2], -b[1]>> ELSE <<b[2], b[1]>>)

\* a < b taken as a <= b.
FLtOrEqual(a, b) ==
    IF a = NaN \/ b = NaN THEN FALSE
    ELSE IF a = b \/ a = NegInf \/ b = Inf THEN TRUE
    ELSE IF a = Inf \/ b = NegInf THEN FALSE
    ELSE RLt(a, b)

\* a < b
FLt(a, b) ==
    IF a = NaN \/ b = NaN \/ a = b THEN FALSE
    ELSE IF a = NegInf \/ b = Inf THEN TRUE
    ELSE IF a = Inf \/ b = NegInf THEN FALSE
    ELSE RLt(a, b)

\* a == b
FEq(a, b) == a # NaN /\ b # NaN /\ a = b

RECURSIVE FSum(_)
FSum(s) == IF s = <<>> THEN Zero ELSE FAdd(Head(s), FSum(Tail(s)))

Term(f, j, u) ==
    CASE f = "Linear" -> FMul(Coef(j), u)
      [] f = "Cubic" -> FMul(u, FMul(u, u))
      [] f = "Osc" -> IF Log2(u[2]) % 2 = 0 THEN u ELSE FNeg(u)

\* func(v)
Func(f, v) == FSum([j \in 1..Len(v) |-> Term(f, j, v[j])])

\* A number of sign changes that no loop reaches.
flipflopmaxNever == Pow2(20)

\* maximum number of times the gradient can change sign
flipflopmax == 10

NoStep == [type |-> "None", s |-> Zero, l |-> <<>>]
FloatStep(q) == [type |-> "float", s |-> q, l |-> <<>>]
ListStep(l) == [type |-> "list", s |-> Zero, l |-> l]
OtherStep == [type |-> "other", s |-> Zero, l |-> <<>>]

NoneIdx == [isNone |-> TRUE, v |-> <<>>]
Idx(v) == [isNone |-> FALSE, v |-> v]

\* Lines 54-55: nonfixedidx after the default is filled in.
NonFixed == IF nonfixedidx.isNone THEN range(len(vals)) ELSE nonfixedidx.v

\* IdxError with the upper index test off by one.
IdxErrorOffByOne(idx) ==
    IF len(idx) > len(vals) THEN "ValueError"
    ELSE IF len(idx) = 0 THEN "ValueError"
    ELSE IF max(idx) > len(vals) \/ min(idx) < 0 THEN "ValueError"
    ELSE "none"

\* Lines 57-61: the exception the index checks raise, or "none". max() and
\* min() of an empty sequence raise ValueError themselves.
IdxError(idx) ==
    IF len(idx) > len(vals) THEN "ValueError"
    ELSE IF len(idx) = 0 THEN "ValueError"
    ELSE IF max(idx) >= len(vals) \/ min(idx) < 0 THEN "ValueError"
    ELSE "none"

\* Lines 69-91: the exception the step arguments raise, or "none".
StepError ==
    IF abseps.type = "None"
    THEN CASE releps.type = "float" -> "none"
           [] releps.type = "list" ->
                IF len(releps.l) # len(vals) THEN "ValueError" ELSE "none"
           [] OTHER -> "RuntimeError"
    ELSE CASE abseps.type = "float" -> "none"
           [] abseps.type = "list" ->
                IF len(abseps.l) # len(vals) THEN "ValueError" ELSE "none"
           [] OTHER -> "RuntimeError"

\* EpsOf falling back to a unit step where the relative step is zero.
EpsOfUnitFallback ==
    IF abseps.type = "None"
    THEN [j \in 1..len(vals) |->
            LET r == IF releps.type = "float" THEN releps.s ELSE releps.l[j]
                e == RMul(RAbs(vals[j]), r)
            IN  IF e = Zero THEN One ELSE e]
    ELSE IF abseps.type = "float"
         THEN [j \in 1..len(vals) |-> abseps.s]
         ELSE abseps.l

\* Lines 69-90: eps, the first full step of every coordinate.
EpsOf ==
    IF abseps.type = "None"
    THEN IF releps.type = "float"
         THEN [j \in 1..len(vals) |->
                 LET e == RMul(RAbs(vals[j]), releps.s)
                 IN  IF e = Zero THEN releps.s ELSE e]
         ELSE [j \in 1..len(vals) |->
                 LET e == RMul(RAbs(vals[j]), releps.l[j])
                 IN  IF e = Zero THEN releps.l[j] ELSE e]
    ELSE IF abseps.type = "float"
         THEN [j \in 1..len(vals) |-> abseps.s]
         ELSE abseps.l

\* teps taken to be the first full step in relative mode too.
TepsOfEps == EpsOf

\* Lines 73, 79, 91: teps, the scale that is compared with mineps.
TepsOf ==
    IF abseps.type = "None"
    THEN IF releps.type = "float"
         THEN [j \in 1..len(vals) |-> releps.s]
         ELSE releps.l
    ELSE EpsOf

\* Lines 54-91.
Validate ==
    /\ pc = "validate"
    /\ UNCHANGED notD
    /\ LET idx == NonFixed
           e1 == IdxError(idx)
           e2 == IF e1 # "none" THEN e1 ELSE StepError
       IN  /\ nonfixedidx' = Idx(idx)
           /\ IF e2 # "none"
              THEN /\ raised' = e2
                   /\ pc' = "raised"
                   /\ UNCHANGED <<grads, eps, teps, count>>
              ELSE /\ grads' = [k \in 1..len(idx) |-> Zero]
                   /\ eps' = EpsOf
                   /\ teps' = TepsOf
                   /\ count' = 0
                   /\ pc' = "for"
                   /\ UNCHANGED raised
    /\ UNCHANGED <<vals, func, releps, abseps, mineps, reltol, epsscale, it,
                   i, leps, cureps, flipflop, fvals, bvals, cdiff, nevals,
                   ievals, nwarn>>

\* cdiff / cdiffnew as numpy divides: not finite when the divisor is zero.
Ratio(a, b) == LET q == FDiv(a, b) IN [finite |-> isfinite(q), v |-> q]

\* CentralDiff dividing by the half step.
CentralDiffHalfStep(fv, bv, h) ==
    FDiv(FSub(Func(func, fv), Func(func, bv)), FMul(Half, h))

\* Lines 106-109 and 126-129: the central difference over the full step h.
CentralDiff(fv, bv, h) == FDiv(FSub(Func(func, fv), Func(func, bv)), h)

\* LoopInit carrying the flips of the previous index over.
LoopInitCarry(k) ==
    LET h == At(eps, k)
        fv == Put(vals, k, FAdd(At(vals, k), FMul(Half, h)))
        bv == Put(vals, k, FSub(At(vals, k), FMul(Half, h)))
    IN  [i |-> k, leps |-> h, cureps |-> At(teps, k), flipflop |-> flipflop,
         fvals |-> fv, bvals |-> bv, cdiff |-> CentralDiff(fv, bv, h),
         brk |-> "no", grad |-> Zero]

\* Lines 97-109: the state of the loop of index k before its first
\* refinement. brk is "no" while the loop runs; grad is what the loop emits.
LoopInit(k) ==
    LET h == At(eps, k)
        fv == Put(vals, k, FAdd(At(vals, k), FMul(Half, h)))
        bv == Put(vals, k, FSub(At(vals, k), FMul(Half, h)))
    IN  [i |-> k, leps |-> h, cureps |-> At(teps, k), flipflop |-> 0,
         fvals |-> fv, bvals |-> bv, cdiff |-> CentralDiff(fv, bv, h),
         brk |-> "no", grad |-> Zero]

\* FlatValue keeping the last estimate.
FlatValueLast(s) == s.cdiff

\* Line 122: the value emitted for an index that did not converge.
FlatValue(s) == Zero

\* Lines 112-148: one pass of the while loop from loop state s.
WhileBody(s) ==
    LET fv1 == Put(s.fvals, s.i, FSub(At(s.fvals, s.i), FMul(Half, s.leps)))
        bv1 == Put(s.bvals, s.i, FAdd(At(s.bvals, s.i), FMul(Half, s.leps)))
        cur == FMul(s.cureps, epsscale)
        h == FMul(s.leps, epsscale)
        fv2 == Put(fv1, s.i, FAdd(At(fv1, s.i), FMul(Half, h)))
        bv2 == Put(bv1, s.i, FSub(At(bv1, s.i), FMul(Half, h)))
        cdiffnew == CentralDiff(fv2, bv2, h)
        rat == Ratio(s.cdiff, cdiffnew)
        t == [s EXCEPT !.fvals = fv2, !.bvals = bv2, !.cureps = cur,
                       !.leps = h]
    IN  IF FLt(cur, mineps) \/ s.flipflop > flipflopmax
        THEN [s EXCEPT !.fvals = fv1, !.bvals = bv1, !.cureps = cur,
                       !.brk = "flat", !.grad = FlatValue(s)]
        ELSE IF FEq(cdiffnew, s.cdiff)
        THEN [t EXCEPT !.brk = "same", !.grad = s.cdiff]
        ELSE IF rat.finite /\ FLt(Zero, rat.v)
        THEN IF FLt(FAbs(FSub(One, rat.v)), reltol)
             THEN [t EXCEPT !.brk = "tol", !.grad = cdiffnew]
             ELSE [t EXCEPT !.cdiff = cdiffnew]
        ELSE [t EXCEPT !.cdiff = cdiffnew, !.flipflop = s.flipflop + 1]

\* The loop state held in the variables.
LoopState ==
    [i |-> i, leps |-> leps, cureps |-> cureps, flipflop |-> flipflop,
     fvals |-> fvals, bvals |-> bvals, cdiff |-> cdiff, brk |-> "no",
     grad |-> Zero]

\* Store writing at the parameter index instead of count.
StoreAtIndex(g, c, k, v) == Put(g, IF k < Len(g) THEN k ELSE c, v)

\* Lines 122, 132, 140: grads[count] = v, for the loop of index k.
Store(g, c, k, v) == Put(g, c, v)

\* Lines 95-109: the for loop takes its next index and the first central
\* difference is computed.
ForNext ==
    /\ pc = "for"
    /\ UNCHANGED notD
    /\ it < len(nonfixedidx.v)
    /\ \E s \in {LoopInit(At(nonfixedidx.v, it))} :
           /\ i' = s.i
           /\ leps' = s.leps
           /\ cureps' = s.cureps
           /\ flipflop' = s.flipflop
           /\ fvals' = s.fvals
           /\ bvals' = s.bvals
           /\ cdiff' = s.cdiff
    /\ it' = it + 1
    /\ nevals' = nevals + 2
    /\ ievals' = 2
    /\ pc' = "while"
    /\ UNCHANGED <<vals, func, releps, abseps, mineps, reltol, epsscale,
                   nonfixedidx, grads, eps, teps, count, raised, nwarn>>

\* The most calls of func the model follows the loop of one index for.
MaxEvals == 40

\* Lines 111-150: one pass of the while loop; on a break the value is
\* stored and count moves on.
Refine ==
    /\ pc = "while"
    /\ UNCHANGED notD
    /\ ievals < MaxEvals
    /\ \E s \in {WhileBody(LoopState)} :
           /\ leps' = s.leps
           /\ cureps' = s.cureps
           /\ flipflop' = s.flipflop
           /\ fvals' = s.fvals
           /\ bvals' = s.bvals
           /\ cdiff' = s.cdiff
           /\ nevals' = IF s.brk = "flat" THEN nevals ELSE nevals + 2
           /\ ievals' = IF s.brk = "flat" THEN ievals ELSE ievals + 2
           /\ nwarn' = IF s.brk = "flat" THEN nwarn + 1 ELSE nwarn
           /\ IF s.brk = "no"
              THEN UNCHANGED <<grads, count, pc>>
              ELSE /\ grads' = Store(grads, count, i, s.grad)
                   /\ count' = count + 1
                   /\ pc' = "for"
    /\ UNCHANGED <<vals, func, releps, abseps, mineps, reltol, epsscale,
                   nonfixedidx, eps, teps, it, i, raised>>

\* Line 152: the for loop is exhausted and grads is returned.
Return ==
    /\ pc = "for"
    /\ UNCHANGED notD
    /\ it = len(nonfixedidx.v)
    /\ pc' = "done"
    /\ UNCHANGED <<vals, func, releps, abseps, mineps, reltol, epsscale,
                   nonfixedidx, grads, eps, teps, count, it, i, leps, cureps,
                   flipflop, fvals, bvals, cdiff, raised, nevals, ievals,
                   nwarn>>

(***************************************************************************)
(* logtrapzexp(lnf, dx)                                                    *)
(* A float in the log domain is modelled by the rational it is the         *)
(* logarithm of: Ln(q) is log(q), so that adding logarithms multiplies     *)
(* the rationals and logsumexp adds them. Ln(Zero) is -inf.                *)
(***************************************************************************)
\* Largest len(lnf) of a logtrapzexp call.
MaxSamples == 3

Ln(q) == [ln |-> q]

\* np.log of a positive float.
Log(q) == Ln(q)

\* a + b for two log-domain floats.
LnAdd(a, b) == Ln(RMul(a.ln, b.ln))

\* scipy.special.logsumexp over a sequence of log-domain floats.
logsumexp(a) == Ln(RSum([k \in 1..Len(a) |-> a[k].ln]))

NoResult == [set |-> FALSE, ln |-> Zero]
Returned(v) == [set |-> TRUE, ln |-> v.ln]

NumberStep(q) == [type |-> "number", s |-> q, l |-> <<>>]

\* TrapzError asking for as many steps as samples.
TrapzErrorSameLength(f, d) ==
    CASE d.type = "number" -> "none"
      [] d.type = "list" -> IF len(d.l) # len(f) THEN "ValueError" ELSE "none"
      [] OTHER -> "TypeError"

\* Lines 174-187: the exception the step argument raises, or "none".
TrapzError(f, d) ==
    CASE d.type = "number" -> "none"
      [] d.type = "list" ->
            IF len(d.l) # len(f) - 1 THEN "ValueError" ELSE "none"
      [] OTHER -> "TypeError"

\* TrapzValue with the steps added to lnf[:-1] only.
TrapzValueOneSided(f, d) ==
    LET lnfdx1 == SubSeq(f, 1, Len(f) - 1)
        lnfdx2 == Tail(f)
    IN  IF d.type = "number"
        THEN LnAdd(Log(RDiv(d.s, R(2, 1))),
                   logsumexp(<<logsumexp(lnfdx1), logsumexp(lnfdx2)>>))
        ELSE LET lndx == [k \in 1..Len(d.l) |-> Log(d.l[k])]
                 a == [k \in 1..Len(lnfdx1) |-> LnAdd(lnfdx1[k], lndx[k])]
             IN  LnAdd(Ln(R(1, 2)),
                       logsumexp(<<logsumexp(a), logsumexp(lnfdx2)>>))

\* Lines 172-189: the value returned for a dx the checks accept.
TrapzValue(f, d) ==
    LET lnfdx1 == SubSeq(f, 1, Len(f) - 1)
        lnfdx2 == Tail(f)
    IN  IF d.type = "number"
        THEN LnAdd(Log(RDiv(d.s, R(2, 1))),
                   logsumexp(<<logsumexp(lnfdx1), logsumexp(lnfdx2)>>))
        ELSE LET lndx == [k \in 1..Len(d.l) |-> Log(d.l[k])]
                 a == [k \in 1..Len(lnfdx1) |-> LnAdd(lnfdx1[k], lndx[k])]
                 b == [k \in 1..Len(lnfdx2) |-> LnAdd(lnfdx2[k], lndx[k])]
             IN  LnAdd(Ln(R(1, 2)),
                       logsumexp(<<logsumexp(a), logsumexp(b)>>))

\* Lines 172-189.
LogTrapzExp ==
    /\ tpc = "call"
    /\ UNCHANGED notT
    /\ \E e \in {TrapzError(lnf, dx)} :
           IF e # "none"
           THEN /\ traised' = e
                /\ tpc' = "raised"
                /\ UNCHANGED tresult
           ELSE /\ tresult' = Returned(TrapzValue(lnf, dx))
                /\ tpc' = "done"
                /\ UNCHANGED traised
    /\ UNCHANGED <<lnf, dx>>

\* The samples: logarithms of 1/2, 1 and 2.
LnSet == {Ln(R(1, 2)), Ln(One), Ln(R(2, 1))}

\* The steps: a number, a list of up to MaxSamples steps (one step per
\* interval, and lists shorter and longer than that), or another type.
DxSet ==
    {NumberStep(q) : q \in {R(1, 2), One, R(3, 1)}}
    \cup {ListStep(l) : l \in SeqUpTo({R(1, 2), R(2, 1)}, MaxSamples)}
    \cup {OtherStep}

InitT ==
    /\ lnf \in UNION {[1..n -> LnSet] : n \in 2..MaxSamples}
    /\ dx \in DxSet
    /\ tpc = "call"
    /\ traised = "none"
    /\ tresult = NoResult

(***************************************************************************)
(* UnsortedInterp2d.__call__(x, y)                                         *)
(* A float is an integer here. A Python number is [kind |-> "scalar"]; a   *)
(* numpy array is [kind |-> "array"] with its shape and its elements in    *)
(* row-major order.                                                        *)
(***************************************************************************)
\* Largest size of one dimension of a query array.
MaxDim == 4

\* The fitted domain and the fill value of the interpolant (self.x_min, ...).
x_min == 1
x_max == 3
y_min == 2
y_max == 4
fill_value == -1

\* The value of the fitted surface self.tck at (px, py).
Surface(px, py) == 10 * px + py

Scalar(v) == [kind |-> "scalar", shape |-> <<>>, data |-> <<v>>]
Array(sh, d) == [kind |-> "array", shape |-> sh, data |-> d]

RECURSIVE Size(_)
Size(sh) == IF sh = <<>> THEN 1 ELSE Head(sh) * Size(Tail(sh))

isarray(a) == a.kind = "array"

\* Collapse leaving one-element arrays as they are.
CollapseNever(a) == a

\* Lines 242-245: a one-element array becomes a float.
Collapse(a) == IF isarray(a) /\ Size(a.shape) = 1 THEN Scalar(a.data[1]) ELSE a

\* np.expand_dims(a, 0) until the rank is r.
RECURSIVE PadToLeft(_, _)
PadToLeft(sh, r) == IF Len(sh) >= r THEN sh ELSE PadToLeft(<<1>> \o sh, r)

\* Lines 248-251: np.expand_dims(a, -1) until the rank is r.
RECURSIVE PadTo(_, _)
PadTo(sh, r) == IF Len(sh) >= r THEN sh ELSE PadTo(Append(sh, 1), r)

\* Lines 248-252: the shapes after the ranks are made equal.
Padded(sx, sy) ==
    IF sx = sy THEN <<sx, sy>>
    ELSE <<PadTo(sx, Len(sy)), PadTo(sy, Len(sx))>>

\* numpy's rule for two shapes of the same rank.
Broadcastable(sx, sy) ==
    \A j \in 1..Len(sx) : sx[j] = sy[j] \/ sx[j] = 1 \/ sy[j] = 1

BroadcastShape(sx, sy) ==
    [j \in 1..Len(sx) |-> IF sx[j] = 1 THEN sy[j] ELSE sx[j]]

\* The row-major stride of dimension j.
Stride(sh, j) == Size(SubSeq(sh, j + 1, Len(sh)))

\* Element k (from 0) of the array of shape `to` that a of shape `from`
\* broadcasts to: the element of a it repeats.
SourceIndex(k, to, from) ==
    LET pos(j) == IF from[j] = 1 THEN 0 ELSE (k \div Stride(to, j)) % to[j]
        term[j \in 0..Len(to)] ==
            IF j = 0 THEN 0 ELSE term[j - 1] + pos(j) * Stride(from, j)
    IN  term[Len(to)]

\* a * np.ones(to), for shapes of the same rank that broadcast.
BroadcastTo(sh, d, to) ==
    LET bs == BroadcastShape(sh, to)
    IN  Array(bs, [k \in 1..Size(bs) |-> d[SourceIndex(k - 1, bs, sh) + 1]])

\* Lines 261, 263: v * np.ones_like(a)
OnesLike(v, a) == Array(a.shape, [k \in 1..Len(a.data) |-> v])

\* OriginalShapes taken after the ranks are padded.
OriginalShapesAfterPadding(a, b) == Padded(a.shape, b.shape)

\* Line 247: the shapes the error message names.
OriginalShapes(a, b) == <<a.shape, b.shape>>

\* Lines 241-264: _sanitize_inputs
Sanitize ==
    /\ ipc = "sanitize"
    /\ UNCHANGED notI
    /\ \E a \in {Collapse(x)}, b \in {Collapse(y)} :
        IF isarray(a) /\ isarray(b)
        THEN \E p \in {Padded(a.shape, b.shape)} :
                IF Broadcastable(p[1], p[2])
                THEN /\ x' = BroadcastTo(p[1], a.data, p[2])
                     /\ y' = BroadcastTo(p[2], b.data, x'.shape)
                     /\ ipc' = "evaluate"
                     /\ UNCHANGED <<iraised, errshapes>>
                ELSE /\ iraised' = <<"ValueError", "incompatibly shaped arrays">>
                     /\ errshapes' = OriginalShapes(a, b)
                     /\ ipc' = "raised"
                     /\ UNCHANGED <<x, y>>
        ELSE /\ x' = IF ~isarray(a) /\ isarray(b) THEN OnesLike(a.data[1], b)
                     ELSE a
             /\ y' = IF isarray(a) /\ ~isarray(b) THEN OnesLike(b.data[1], a)
                     ELSE b
             /\ ipc' = "evaluate"
             /\ UNCHANGED <<iraised, errshapes>>
    /\ UNCHANGED <<xin, yin, output, ier, calls>>

\* Bad with the boundary counted as out of bounds.
BadInclusive(px, py) ==
    (px <= x_min \/ px >= x_max) \/ (py <= y_min \/ py >= y_max)

\* Lines 217-219: whether the point is out of bounds.
Bad(px, py) == (px < x_min \/ px > x_max) \/ (py < y_min \/ py > y_max)

\* Select keeping every point.
SelectAll(d, xs, ys) == d

\* a[~bad]: the elements of d at the in-bounds points, in order.
RECURSIVE Select(_, _, _)
Select(d, xs, ys) ==
    IF d = <<>> THEN <<>>
    ELSE IF Bad(Head(xs), Head(ys)) THEN Select(Tail(d), Tail(xs), Tail(ys))
    ELSE <<Head(d)>> \o Select(Tail(d), Tail(xs), Tail(ys))

\* The number of in-bounds points among the first k.
RECURSIVE GoodBefore(_, _, _)
GoodBefore(k, xs, ys) ==
    IF k = 0 THEN 0
    ELSE GoodBefore(k - 1, xs, ys) + (IF Bad(xs[k], ys[k]) THEN 0 ELSE 1)

\* Scatter with the values assigned one place late.
ScatterShifted(xs, ys, v) ==
    [k \in 1..Len(xs) |->
        IF Bad(xs[k], ys[k]) THEN fill_value
        ELSE v[(GoodBefore(k, xs, ys) % Len(v)) + 1]]

\* Lines 229, 231: output[bad] = fill_value; output[~bad] = v
Scatter(xs, ys, v) ==
    [k \in 1..Len(xs) |->
        IF Bad(xs[k], ys[k]) THEN fill_value ELSE v[GoodBefore(k, xs, ys)]]

\* bispeu(*self.tck, xs, ys): the surface at every pair (xs[k], ys[k]).
Bispeu(xs, ys) == [k \in 1..Len(xs) |-> Surface(xs[k], ys[k])]

\* The statuses bispeu reports: success, invalid input data, other errors.
IerSet == {0, 10, 1, -1}

\* Lines 217-233.
Evaluate ==
    /\ ipc = "evaluate"
    /\ UNCHANGED notI
    /\ IF ~isarray(x) /\ ~isarray(y)
       THEN IF Bad(x.data[1], y.data[1])
            THEN /\ output' = Scalar(fill_value)
                 /\ ier' = 0
                 /\ UNCHANGED calls
            ELSE /\ output' = Scalar(Bispeu(x.data, y.data)[1])
                 /\ ier' \in IerSet
                 /\ calls' = Append(calls, <<x.data, y.data>>)
       ELSE \E xs \in {Select(x.data, x.data, y.data)},
               ys \in {Select(y.data, x.data, y.data)} :
                IF xs # <<>>
                THEN /\ output' = Array(x.shape,
                                        Scatter(x.data, y.data, Bispeu(xs, ys)))
                     /\ ier' \in IerSet
                     /\ calls' = Append(calls, <<xs, ys>>)
                ELSE /\ output' = Array(x.shape, Scatter(x.data, y.data, <<>>))
                     /\ ier' = 0
                     /\ UNCHANGED calls
    /\ ipc' = "check"
    /\ UNCHANGED <<xin, yin, x, y, iraised, errshapes>>

\* Finish returning the output for every status but 10.
FinishSwallow ==
    /\ ipc = "check"
    /\ UNCHANGED notI
    /\ IF ier = 10
       THEN /\ iraised' = <<"ValueError", "Invalid input data">>
            /\ ipc' = "raised"
       ELSE /\ ipc' = "done"
            /\ UNCHANGED iraised
    /\ UNCHANGED <<xin, yin, x, y, output, ier, errshapes, calls>>

\* Lines 234-238.
Finish ==
    /\ ipc = "check"
    /\ UNCHANGED notI
    /\ IF ier = 10
       THEN /\ iraised' = <<"ValueError", "Invalid input data">>
            /\ ipc' = "raised"
       ELSE IF ier # 0
       THEN /\ iraised' = <<"TypeError", "An error occurred">>
            /\ ipc' = "raised"
       ELSE /\ ipc' = "done"
            /\ UNCHANGED iraised
    /\ UNCHANGED <<xin, yin, x, y, output, ier, errshapes, calls>>

\* The query values: below, on and inside the bounds and above them.
Values == <<0, 1, 2, 3, 4, 5>>

\* The elements of a query array of n elements, from offset r of Values on.
DataOf(n, r) == [k \in 1..n |-> Values[((k + r) % Len(Values)) + 1]]

\* The shapes of the query arrays: rank 0, 1 and 2, and the small ones of
\* rank 3.
Shapes ==
    {<<>>} \cup [1..1 -> 1..MaxDim] \cup [1..2 -> 1..MaxDim]
    \cup [1..3 -> 1..2]

\* The queries: Python numbers and arrays.
Queries ==
    {Scalar(Values[r + 1]) : r \in 0..Len(Values) - 1}
    \cup {Array(sh, DataOf(Size(sh), r)) : sh \in Shapes, r \in 0..Len(Values) - 1}

NoOutput == [kind |-> "none", shape |-> <<>>, data |-> <<>>]

InitI ==
    /\ xin \in Queries
    /\ yin \in Queries
    /\ x = xin
    /\ y = yin
    /\ output = NoOutput
    /\ ier = 0
    /\ ipc = "sanitize"
    /\ iraised = <<"none", "">>
    /\ errshapes = <<>>
    /\ calls = <<>>

(***************************************************************************)
(* The calls of derivatives the model makes.                               *)
(***************************************************************************)
\* vals: a zero, a positive and a negative coordinate, in turn.
Pool == <<Zero, One, R(-2, 1)>>

ValsSet == {[j \in 1..n |-> Pool[((j + r) % 3) + 1]] : n \in 1..MaxLen, r \in 0..2}

\* nonfixedidx: None, or indices from -1 to len(vals), so that sequences
\* that are too long, out of range, repeated or reordered all occur.
IdxSet(n) == {NoneIdx} \cup {Idx(v) : v \in SeqUpTo(-1..n, MaxIdx)}

\* A step list of m entries: 1/2, 1/4, ...
StepList(m) == [j \in 1..m |-> R(1, Pow2(j))]

\* (releps, abseps): lists one shorter, equal and one longer than vals, and
\* a type that is neither float nor list. releps is not read when abseps is
\* given.
StepArgs ==
    ({FloatStep(R(1, 2)), FloatStep(R(1, 8)), OtherStep}
        \cup {ListStep(StepList(m)) : m \in 1..MaxLen + 1}) \X {NoStep}
    \cup
    {FloatStep(R(1, 8)), OtherStep} \X
        ({FloatStep(R(1, 2)), OtherStep}
            \cup {ListStep(StepList(m)) : m \in 1..MaxLen + 1})

\* (mineps, reltol, epsscale). The last leaves room for more than
\* flipflopmax refinements; the cubes of the cubic objective do not fit the
\* model's integers at that depth. The cubic objective is given a reltol
\* that its first refinement at 1.0 and at -2.0 meets exactly: there
\* cdiff / cdiffnew is 196/193.
Tunings(f) ==
    {<<R(1, 32), R(1, 100), Half>>, <<R(1, 8), R(1, 8), Half>>,
     <<R(1, 32), R(1, 8), R(1, 4)>>}
    \cup (IF f = "Cubic" THEN {<<R(1, 32), R(3, 193), Half>>}
          ELSE {<<R(1, Pow2(14)), R(1, 100), Half>>})

\* (mineps, reltol, epsscale) with a step that grows, a step that stays and
\* a minimum step that no step is below; these calls are made over every
\* index.
WideTunings ==
    {<<R(1, 32), R(1, 100), R(2, 1)>>, <<R(1, 32), R(1, 100), One>>,
     <<Zero, R(1, 100), Half>>}

InitD ==
    /\ vals \in ValsSet
    /\ func \in Funcs
    /\ nonfixedidx \in IdxSet(len(vals))
    /\ \E a \in StepArgs : releps = a[1] /\ abseps = a[2]
    /\ \E t \in Tunings(func)
                 \cup (IF nonfixedidx.isNone THEN WideTunings ELSE {}) :
           mineps = t[1] /\ reltol = t[2] /\ epsscale = t[3]
    /\ grads = <<>>
    /\ eps = <<>>
    /\ teps = <<>>
    /\ count = 0
    /\ it = 0
    /\ i = 0
    /\ leps = Zero
    /\ cureps = Zero
    /\ flipflop = 0
    /\ fvals = <<>>
    /\ bvals = <<>>
    /\ cdiff = Zero
    /\ pc = "validate"
    /\ raised = "none"
    /\ nevals = 0
    /\ ievals = 0
    /\ nwarn = 0

vars == <<dvars, tvars, ivars>>

\* No call of derivatives is in progress.
IdleD ==
    /\ vals = <<>> /\ func = "Linear" /\ releps = NoStep /\ abseps = NoStep
    /\ mineps = Zero /\ reltol = Zero /\ epsscale = Zero
    /\ nonfixedidx = NoneIdx
    /\ grads = <<>> /\ eps = <<>> /\ teps = <<>> /\ count = 0 /\ it = 0
    /\ i = 0 /\ leps = Zero /\ cureps = Zero /\ flipflop = 0
    /\ fvals = <<>> /\ bvals = <<>> /\ cdiff = Zero
    /\ pc = "idle" /\ raised = "none" /\ nevals = 0 /\ ievals = 0
    /\ nwarn = 0

\* No call of logtrapzexp is in progress.
IdleT ==
    /\ lnf = <<>> /\ dx = NoStep /\ tpc = "idle" /\ traised = "none"
    /\ tresult = NoResult

\* No call of UnsortedInterp2d is in progress.
IdleI ==
    /\ xin = NoOutput /\ yin = NoOutput /\ x = NoOutput /\ y = NoOutput
    /\ output = NoOutput /\ ier = 0 /\ ipc = "idle"
    /\ iraised = <<"none", "">> /\ errshapes = <<>> /\ calls = <<>>

\* A call of derivatives.
Init == InitD /\ IdleT /\ IdleI

Next == Validate \/ ForNext \/ Refine \/ Return

Spec == Init /\ [][Next]_vars

\* A call of logtrapzexp.
InitTrapz == InitT /\ IdleD /\ IdleI

NextTrapz == LogTrapzExp

SpecTrapz == InitTrapz /\ [][NextTrapz]_vars

\* A call of UnsortedInterp2d.
InitInterp == InitI /\ IdleD /\ IdleT

NextInterp == Sanitize \/ Evaluate \/ Finish

SpecInterp == InitInterp /\ [][NextInterp]_vars

(***************************************************************************)
(* Properties of derivatives.                                              *)
(***************************************************************************)
\* Lines 111-148 run to their break: the value the loop of index k emits.
RECURSIVE Converge(_)
Converge(s) ==
    LET t == WhileBody(s) IN IF t.brk # "no" THEN t.grad ELSE Converge(t)

\* The entry of index k in the result of the call over all indices.
FullGrad(k) == Converge(LoopInit(k))

\* The step argument the call reads: releps when abseps is None.
StepArg == IF abseps.type = "None" THEN releps ELSE abseps

\* A call the validation has to reject.
InvalidCall ==
    \/ len(NonFixed) > len(vals)
    \/ \E k \in 1..len(NonFixed) : NonFixed[k] < 0 \/ NonFixed[k] >= len(vals)
    \/ StepArg.type = "list" /\ len(StepArg.l) # len(vals)
    \/ StepArg.type = "other"

\* C1: a call with too many indices, an index out of range, a step list of
\* the wrong length or a step of an unrecognised type ends in an exception,
\* and func has not been called.
C1_ValidationBeforeEvaluation ==
    (pc # "validate" /\ InvalidCall) =>
        (pc = "raised" /\ raised # "none" /\ nevals = 0)

C1_Witness ==
    /\ pc = "raised"
    /\ nevals = 0
    /\ IdxError(nonfixedidx.v) = "none"
    /\ abseps.type = "list"
    /\ len(abseps.l) = len(vals) + 1

\* C2: the result has one entry per requested index, and entry k is the
\* derivative of parameter nonfixedidx[k], in the order the indices were
\* given, whether or not the indices converged.
C2_OrderOfNonFixedIdx ==
    pc = "done" =>
        /\ len(grads) = len(nonfixedidx.v)
        /\ \A k \in 1..len(grads) : grads[k] = FullGrad(nonfixedidx.v[k])

C2_Witness ==
    /\ pc = "done"
    /\ nonfixedidx.v = <<1, 0>>
    /\ grads[1] # grads[2]
    /\ nwarn = 1

\* C3: after validation no exception is raised; a loop that stops without
\* convergence (it logs the warning) stores exactly 0.0 at its position and
\* hands over to the for loop, and the call returns a full-length result.
C3_NonConvergenceIsFlat ==
    /\ [][nwarn' # nwarn =>
            /\ At(grads', count) = Zero
            /\ count' = count + 1
            /\ pc' = "for"
            /\ raised' = "none"]_vars
    /\ [](pc \in {"for", "while", "done"} => raised = "none")
    /\ [](pc = "done" =>
            /\ len(grads) = len(nonfixedidx.v)
            /\ count = len(nonfixedidx.v))

\* The first index (the cubic at 0, whose estimates are leps^2 / 4, never
\* zero) did not converge, and the second index was still worked on and
\* converged.
C3_Witness ==
    /\ pc = "done"
    /\ nwarn = 1
    /\ len(grads) = 2
    /\ grads[1] = Zero
    /\ grads[2] # Zero
    /\ func = "Cubic"
    /\ At(vals, nonfixedidx.v[1]) = Zero

\* C4 as stated: for the linear objective a.v every requested index i gets
\* a[i], whatever the steps, mineps and epsscale are.
C4_LinearAnyStep ==
    (pc = "done" /\ func = "Linear") =>
        \A k \in 1..len(grads) : grads[k] = Coef(nonfixedidx.v[k] + 1)

\* Whether the first refinement of index k is cut off by mineps.
CutOff(k) == RLt(RMul(At(teps, k), epsscale), mineps)

\* C4 amended: for the linear objective a.v index i gets a[i] when
\* teps[i] * epsscale >= mineps, and 0.0 when teps[i] * epsscale < mineps.
C4_LinearUnlessCutOff ==
    (pc = "done" /\ func = "Linear") =>
        \A k \in 1..len(grads) :
            grads[k] = IF CutOff(nonfixedidx.v[k]) THEN Zero
                       ELSE Coef(nonfixedidx.v[k] + 1)

C4_Witness ==
    /\ pc = "done"
    /\ func = "Linear"
    /\ len(grads) = 2
    /\ grads[1] = Coef(nonfixedidx.v[1] + 1)
    /\ ~CutOff(nonfixedidx.v[1])
    /\ abseps.type = "list"

(***************************************************************************)
(* Properties of logtrapzexp.                                              *)
(***************************************************************************)
\* f[k] = exp(lnf[k])
Exp(a) == a.ln

\* The step of interval k: the single step, or dx[k].
DxAt(k) == IF dx.type = "number" THEN dx.s ELSE dx.l[k]

\* The trapezium rule: the sum over adjacent pairs of dx_k (f[k] + f[k+1]) / 2.
Trapezium ==
    RSum([k \in 1..Len(lnf) - 1 |->
            RMul(DxAt(k), RMul(Half, RAdd(Exp(lnf[k]), Exp(lnf[k + 1]))))])

\* C5: the returned value is the logarithm of the trapezium-rule integral of
\* exp(lnf), with the single step or with dx[k] per interval; three samples
\* of value 1 with step 1 give log(2).
C5_LogOfTrapezium ==
    /\ tpc = "done" => tresult = Returned(Ln(Trapezium))
    /\ (tpc = "done" /\ lnf = <<Ln(One), Ln(One), Ln(One)>>
            /\ dx = NumberStep(One)) => tresult = Returned(Ln(R(2, 1)))

C5_Witness ==
    /\ tpc = "done"
    /\ dx.type = "list"
    /\ dx.l = <<R(1, 2), R(2, 1)>>
    /\ lnf = <<Ln(One), Ln(R(2, 1)), Ln(R(1, 2))>>
    /\ tresult = Returned(Ln(R(13, 4)))

\* C10 as stated: a dx that is a sequence of another length than
\* len(lnf) - 1, or of another type, is rejected with one and the same
\* error kind (that of the wrong length, ValueError), and nothing is returned.
C10_SameErrorKind ==
    (tpc # "call" /\ (dx.type = "other"
                        \/ (dx.type = "list" /\ len(dx.l) # len(lnf) - 1))) =>
        (tpc = "raised" /\ traised = "ValueError" /\ tresult = NoResult)

\* C10 amended: a number, or a list of len(lnf) - 1 steps, is accepted; a
\* list of another length is rejected with ValueError and a dx of another
\* type with TypeError, and in both cases nothing is returned.
C10_LengthOrTypeError ==
    tpc # "call" =>
        CASE dx.type = "list" /\ len(dx.l) # len(lnf) - 1 ->
                tpc = "raised" /\ traised = "ValueError" /\ tresult = NoResult
          [] dx.type = "other" ->
                tpc = "raised" /\ traised = "TypeError" /\ tresult = NoResult
          [] OTHER -> tpc = "done" /\ traised = "none" /\ tresult.set

\* A dx that is neither a number nor a list ended the call in TypeError.
C10_Witness ==
    /\ tpc = "raised"
    /\ traised = "TypeError"
    /\ dx.type = "other"
    /\ tresult = NoResult

(***************************************************************************)
(* Properties of UnsortedInterp2d.                                         *)
(***************************************************************************)
\* The point lies in the fitted domain, its boundary included.
InBounds(px, py) == x_min <= px /\ px <= x_max /\ y_min <= py /\ py <= y_max

\* What a query point is to get.
PointValue(px, py) == IF InBounds(px, py) THEN Surface(px, py) ELSE fill_value

\* An array of more than one element.
Multi(a) == isarray(a) /\ Size(a.shape) # 1

\* C6: every point of the reconciled query within the bounds, the boundary
\* included, gets the value of the surface, and every point with x or y
\* strictly outside gets fill_value, each point on its own.
C6_InclusiveBounds ==
    ipc = "done" =>
        /\ Len(output.data) = Len(x.data)
        /\ \A k \in 1..Len(x.data) :
            /\ InBounds(x.data[k], y.data[k]) =>
                    output.data[k] = Surface(x.data[k], y.data[k])
            /\ (x.data[k] < x_min \/ x.data[k] > x_max
                    \/ y.data[k] < y_min \/ y.data[k] > y_max) =>
                    output.data[k] = fill_value

\* An array query with a point on the corner (x_max, y_min) of the domain
\* and a point just beyond x_max.
C6_Witness ==
    /\ ipc = "done"
    /\ isarray(output)
    /\ \E k \in 1..Len(x.data) :
        /\ x.data[k] = x_max /\ y.data[k] = y_min
        /\ output.data[k] = Surface(x_max, y_min)
    /\ \E k \in 1..Len(x.data) :
        /\ x.data[k] = x_max + 1 /\ InBounds(x_max, y.data[k])
        /\ output.data[k] = fill_value

\* C7: the evaluation pairs the elements: a number x with an array y of n
\* elements gives n values, entry k that of (x, y[k]), and likewise for an
\* array x with a number y; two arrays of one shape give entry k that of
\* (x[k], y[k]); after reconciliation entry k is that of (x[k], y[k]).
C7_PairedNotOuter ==
    ipc = "done" =>
        /\ (~isarray(xin) /\ Multi(yin)) =>
            /\ Len(output.data) = Len(yin.data)
            /\ \A k \in 1..Len(yin.data) :
                output.data[k] = PointValue(xin.data[1], yin.data[k])
        /\ (Multi(xin) /\ ~isarray(yin)) =>
            /\ Len(output.data) = Len(xin.data)
            /\ \A k \in 1..Len(xin.data) :
                output.data[k] = PointValue(xin.data[k], yin.data[1])
        /\ (Multi(xin) /\ Multi(yin) /\ xin.shape = yin.shape) =>
            /\ Len(output.data) = Len(xin.data)
            /\ \A k \in 1..Len(xin.data) :
                output.data[k] = PointValue(xin.data[k], yin.data[k])
        /\ Len(output.data) = Len(x.data)
        /\ Len(y.data) = Len(x.data)
        /\ \A k \in 1..Len(x.data) :
            output.data[k] = PointValue(x.data[k], y.data[k])

\* A number x in bounds with an array y of three elements, all in bounds.
C7_Witness ==
    /\ ipc = "done"
    /\ ~isarray(xin)
    /\ yin.shape = <<3>>
    /\ Len(output.data) = 3
    /\ \A k \in 1..3 : output.data[k] = Surface(xin.data[1], yin.data[k])

\* C8: two arrays of more than one element whose shapes do not broadcast
\* after the ranks are padded end in the shape error, which names the
\* shapes x and y came in with, and bispeu is never called.
C8_ShapeMismatch ==
    (/\ ipc # "sanitize"
     /\ Multi(xin) /\ Multi(yin)
     /\ \E j \in 1..Len(Padded(xin.shape, yin.shape)[1]) :
            LET p == Padded(xin.shape, yin.shape)
            IN  p[1][j] # p[2][j] /\ p[1][j] # 1 /\ p[2][j] # 1) =>
        /\ ipc = "raised"
        /\ iraised = <<"ValueError", "incompatibly shaped arrays">>
        /\ errshapes = <<xin.shape, yin.shape>>
        /\ calls = <<>>

C8_Witness ==
    /\ ipc = "raised"
    /\ xin.shape = <<3>>
    /\ yin.shape = <<2, 3>>
    /\ errshapes = <<<<3>>, <<2, 3>>>>
    /\ calls = <<>>

RelStep(j) == IF releps.type = "float" THEN releps.s ELSE releps.l[j + 1]

\* The step the claim gives coordinate j (from 0).
InitialStep(j) ==
    CASE abseps.type = "float" -> abseps.s
      [] abseps.type = "list" -> abseps.l[j + 1]
      [] OTHER ->
           LET e == RMul(RAbs(At(vals, j)), RelStep(j))
           IN  IF e = Zero THEN RelStep(j) ELSE e

\* C11: the first full step of index i is abseps or abseps[i] as given when
\* abseps is supplied, whatever releps is; otherwise it is |vals[i]| * releps
\* (releps[i] for a list), or releps (releps[i]) where that product is zero.
\* The first central difference is taken over that step, which is not zero
\* in relative mode with a non-zero releps.
C11_InitialStep ==
    /\ [](pc \in {"for", "while", "done"} =>
             \A j \in 0..len(vals) - 1 : At(eps, j) = InitialStep(j))
    /\ [][pc = "for" /\ pc' = "while" =>
             /\ leps' = InitialStep(i')
             /\ (abseps.type = "None" /\ RelStep(i') # Zero) => leps' # Zero
             /\ fvals' = Put(vals, i', FAdd(At(vals, i'), FMul(Half, leps')))
             /\ bvals' = Put(vals, i', FSub(At(vals, i'), FMul(Half, leps')))
             /\ cdiff' = CentralDiff(fvals', bvals', leps')]_vars

C11_Witness ==
    /\ pc = "while"
    /\ abseps.type = "None"
    /\ releps.type = "list"
    /\ At(vals, i) = Zero
    /\ leps = At(releps.l, i)
    /\ leps = At(eps, i)
    /\ i = 1

C13_AcceptNewest ==
    [][pc = "while" /\ nwarn' = nwarn /\ ievals' # ievals =>
         \A new \in {CentralDiff(fvals', bvals', leps')} :
           \A rat \in {FDiv(cdiff, new)} :
             LET same == new # NaN /\ new = cdiff
                 ok == isfinite(rat) /\ RLt(Zero, rat)
                 tol == ok /\ RLt(RAbs(RSub(One, rat)), reltol)
             IN  /\ (pc' = "for") <=> (same \/ tol)
                 /\ pc' = "for" =>
                        grads' = Put(grads, count, new) /\ count' = count + 1
                 /\ (ok /\ ~tol /\ ~same) =>
                        /\ pc' = "while"
                        /\ cdiff' = new
                        /\ flipflop' = flipflop]_vars

C13_Witness ==
    /\ pc = "for"
    /\ count = 1
    /\ nwarn = 0
    /\ reltol = R(3, 193)
    /\ At(vals, i) = One
    /\ At(eps, i) = Half
    /\ ievals = 6
    /\ flipflop = 0
    /\ At(grads, 0) = R(769, 256)

\* C14: the flip counter is 0 when the loop of an index starts; a refinement
\* that computes the ratio previous / new adds one to it when the ratio is
\* not finite, zero or negative and leaves it alone otherwise;
\* non-convergence is declared exactly when, at the start of a refinement,
\* the scaled cureps is below mineps or the counter is above 10; the
\* counter is never above 11.
C14_FlipCounter ==
    /\ [](flipflop <= 11)
    /\ [][pc = "for" /\ pc' = "while" => flipflop' = 0]_vars
    /\ [][pc = "while" /\ pc' # pc =>
             (nwarn' = nwarn + 1
              <=> (RLt(RMul(cureps, epsscale), mineps) \/ flipflop > 10))]_vars
    /\ [][pc = "while" /\ nwarn' # nwarn =>
             nwarn' = nwarn + 1 /\ ievals' = ievals /\ pc' = "for"]_vars
    /\ [][pc = "while" /\ nwarn' = nwarn /\ ievals' # ievals =>
             \A new \in {CentralDiff(fvals', bvals', leps')} :
               \A rat \in {FDiv(cdiff, new)} :
                 LET same == new # NaN /\ new = cdiff
                     flip == ~(isfinite(rat) /\ RLt(Zero, rat))
                 IN  flipflop' = IF ~same /\ flip THEN flipflop + 1
                                 ELSE flipflop]_vars

C14_Witness ==
    /\ pc = "while"
    /\ it = 2
    /\ nwarn = 1
    /\ flipflop = 11
    /\ ievals = 24

(***************************************************************************)
(* The in-place updates of fvals[i] and bvals[i] (lines 97-129) in rounded *)
(* arithmetic. Spec takes every sum as exact; here each floating point     *)
(* operation rounds its result to Precision significant bits, to nearest   *)
(* and to even on a tie, as a double does to 53 bits. func is not          *)
(* modelled: whatever it returns, the loop takes another pass or breaks.   *)
(***************************************************************************)
\* The bits of the significand of a float.
Precision == 4

\* The most passes of the while loop that are followed.
MaxPasses == 3

\* The float nearest to the dyadic rational q.
Round(q) ==
    IF q[1] = 0 THEN q
    ELSE LET n == Abs(q[1])
             sh == Log2(n) + 1 - Precision
         IN  IF sh <= 0 THEN q
             ELSE LET m == n \div Pow2(sh)
                      r == n % Pow2(sh)
                      up == r > Pow2(sh - 1) \/ (r = Pow2(sh - 1) /\ m % 2 = 1)
                  IN  R((IF q[1] < 0 THEN -1 ELSE 1)
                            * (IF up THEN m + 1 ELSE m) * Pow2(sh), q[2])

\* Lines 97-108: leps = eps[i], the copies of vals and the first half steps.
RoundedFirst ==
    /\ pc = "for"
    /\ UNCHANGED notD
    /\ it < len(nonfixedidx.v)
    /\ i' = At(nonfixedidx.v, it)
    /\ leps' = At(eps, i')
    /\ fvals' = Put(vals, i', Round(RAdd(At(vals, i'), Round(RMul(Half, leps')))))
    /\ bvals' = Put(vals, i', Round(RSub(At(vals, i'), Round(RMul(Half, leps')))))
    /\ it' = it + 1
    /\ nevals' = nevals + 2
    /\ ievals' = 2
    /\ pc' = "while"
    /\ UNCHANGED <<vals, func, releps, abseps, mineps, reltol, epsscale,
                   nonfixedidx, grads, eps, teps, count, cureps, flipflop,
                   cdiff, raised, nwarn>>

\* Lines 112-113 and 124-128: the old half step is removed, leps is scaled
\* and the new half step is added.
RoundedRefine ==
    /\ pc = "while"
    /\ UNCHANGED notD
    /\ ievals < 2 + 2 * MaxPasses
    /\ \E f1 \in {Round(RSub(At(fvals, i), Round(RMul(Half, leps))))} :
       \E b1 \in {Round(RAdd(At(bvals, i), Round(RMul(Half, leps))))} :
       \E h \in {Round(RMul(leps, epsscale))} :
           /\ leps' = h
           /\ fvals' = Put(fvals, i, Round(RAdd(f1, Round(RMul(Half, h)))))
           /\ bvals' = Put(bvals, i, Round(RSub(b1, Round(RMul(Half, h)))))
    /\ nevals' = nevals + 2
    /\ ievals' = ievals + 2
    /\ UNCHANGED <<vals, func, releps, abseps, mineps, reltol, epsscale,
                   nonfixedidx, grads, eps, teps, count, it, i, cureps,
                   flipflop, cdiff, pc, raised, nwarn>>

\* Lines 118-150: the loop breaks and the for loop moves on.
RoundedBreak ==
    /\ pc = "while"
    /\ UNCHANGED notD
    /\ count' = count + 1
    /\ pc' = "for"
    /\ UNCHANGED <<vals, func, releps, abseps, mineps, reltol, epsscale,
                   nonfixedidx, grads, eps, teps, it, i, leps, cureps,
                   flipflop, fvals, bvals, cdiff, raised, nevals, ievals,
                   nwarn>>

\* The floats from 1.0 up to 2.0, and their negatives.
RoundedVals ==
    {R(s * n, Pow2(Precision - 1)) :
        n \in Pow2(Precision - 1)..Pow2(Precision) - 1, s \in {-1, 1}}

\* Calls with abseps a float, past their validation.
InitRounded ==
    /\ IdleT /\ IdleI
    /\ \E v \in RoundedVals : vals = <<v, One>>
    /\ func = "Linear"
    /\ releps = FloatStep(R(1, 8))
    /\ \E h \in {R(1, 2), R(1, 4), R(3, 8)} :
           abseps = FloatStep(h) /\ eps = <<h, h>> /\ teps = <<h, h>>
    /\ mineps = Zero
    /\ reltol = R(1, 100)
    /\ epsscale \in {Half, R(1, 4)}
    /\ nonfixedidx \in {Idx(<<0>>), Idx(<<0, 1>>)}
    /\ grads = [k \in 1..len(nonfixedidx.v) |-> Zero]
    /\ count = 0 /\ it = 0 /\ i = 0 /\ leps = Zero /\ cureps = Zero
    /\ flipflop = 0 /\ fvals = <<>> /\ bvals = <<>> /\ cdiff = Zero
    /\ pc = "for" /\ raised = "none" /\ nevals = 0 /\ ievals = 0 /\ nwarn = 0

NextRounded == RoundedFirst \/ RoundedRefine \/ RoundedBreak

SpecRounded == InitRounded /\ [][NextRounded]_vars

\* C15: every vector passed to func is vals in the coordinates other than
\* i, its forward and backward coordinates i are vals[i] + leps/2 and
\* vals[i] - leps/2 for the current leps, and vals and the step arrays are
\* as the caller passed them.
C15_NoResidue ==
    pc = "while" =>
        /\ \A k \in 0..len(vals) - 1 :
              k # i => At(fvals, k) = At(vals, k) /\ At(bvals, k) = At(vals, k)
        /\ At(fvals, i) = Round(RAdd(At(vals, i), Round(RMul(Half, leps))))
        /\ At(bvals, i) = Round(RSub(At(vals, i), Round(RMul(Half, leps))))
        /\ eps = <<abseps.s, abseps.s>>
        /\ \E v \in RoundedVals : vals = <<v, One>>

(***************************************************************************)
(* Further properties of UnsortedInterp2d.                                 *)
(***************************************************************************)
\* How many points of the reconciled query are within the bounds.
InBoundsCount ==
    Cardinality({k \in 1..Len(x.data) : InBounds(x.data[k], y.data[k])})

\* C16: bispeu is called at most once in an evaluation, with points that
\* are all within the bounds; once the points are classified it has been
\* called if and only if some point is within the bounds, with as many
\* points as there are within the bounds, and when none is the output is
\* fill_value throughout.
C16_OnlyInBounds ==
    /\ Len(calls) <= 1
    /\ \A c \in 1..Len(calls) :
          /\ Len(calls[c][1]) = Len(calls[c][2])
          /\ \A k \in 1..Len(calls[c][1]) :
                InBounds(calls[c][1][k], calls[c][2][k])
    /\ ipc \in {"check", "done"} =>
          /\ InBoundsCount > 0 =>
                Len(calls) = 1 /\ Len(calls[1][1]) = InBoundsCount
          /\ InBoundsCount = 0 =>
                /\ calls = <<>>
                /\ Len(output.data) = Len(x.data)
                /\ \A k \in 1..Len(output.data) : output.data[k] = fill_value

C16_Witness ==
    /\ ipc = "done"
    /\ Multi(xin) /\ Multi(yin)
    /\ calls = <<>>
    /\ isarray(output)
    /\ Len(output.data) > 1
    /\ \E k \in 1..Len(x.data) : InBounds(x.data[k], y_min) /\ y.data[k] > y_max

\* C17: once bispeu has been called, status 10 ends the call in the
\* ValueError "Invalid input data" and any other status but 0 in the
\* TypeError "An error occurred", and nothing is returned; status 0 returns
\* the output; a call that never called bispeu raises neither error.
C17_FailureRaised ==
    ipc \in {"done", "raised"} =>
        /\ (calls # <<>> /\ ier = 10) =>
              ipc = "raised" /\ iraised = <<"ValueError", "Invalid input data">>
        /\ (calls # <<>> /\ ier # 10 /\ ier # 0) =>
              ipc = "raised" /\ iraised = <<"TypeError", "An error occurred">>
        /\ (calls # <<>> /\ ier = 0) => ipc = "done"
        /\ calls = <<>> =>
              /\ ier = 0
              /\ iraised[2] \notin {"Invalid input data", "An error occurred"}

C17_Witness ==
    /\ ipc = "raised"
    /\ Len(calls) = 1
    /\ ier = -1
    /\ iraised[1] = "TypeError"
    /\ isarray(output)
    /\ InBoundsCount < Len(x.data)

\* The scale of index j that is compared with mineps: the relative step in
\* relative mode and the absolute step in absolute mode.
ScaleOf(j) == IF abseps.type = "None" THEN RelStep(j) ELSE InitialStep(j)

\* The number of times e can be multiplied by epsscale before it falls
\* below mineps, for 0 < epsscale < 1 and mineps > 0.
RECURSIVE Shrinkings(_)
Shrinkings(e) ==
    IF RLt(RMul(e, epsscale), mineps) THEN 0
    ELSE 1 + Shrinkings(RMul(e, epsscale))

\* The largest k with teps[j] * epsscale^k >= mineps.
K(j) == Shrinkings(ScaleOf(j))

\* 0 < epsscale < 1 and mineps > 0
Shrinking == RLt(Zero, epsscale) /\ RLt(epsscale, One) /\ RLt(Zero, mineps)

\* C19: with 0 < epsscale < 1 and mineps > 0 the loop of index i calls func
\* at most 2 + 2K times, K being the largest k with
\* teps[i] * epsscale^k >= mineps; the pass that declares non-convergence
\* calls func no more, stores 0.0 and ends the loop; and when
\* teps[i] * epsscale < mineps the loop ends in its first pass with 0.0,
\* after the two calls of the first central difference, for every objective.
C19_BoundedRefinements ==
    /\ []((Shrinking /\ pc \in {"while", "for", "done"} /\ ievals > 0) =>
             \A k \in {K(i)} : ievals <= 2 + 2 * k)
    /\ [][(Shrinking /\ pc = "while" /\ pc' = "while") =>
             ievals' = ievals + 2 /\ nwarn' = nwarn]_vars
    /\ [][(Shrinking /\ nwarn' # nwarn) =>
             /\ pc = "while" /\ pc' = "for"
             /\ ievals' = ievals /\ nevals' = nevals
             /\ grads' = Put(grads, count, Zero)
             /\ count' = count + 1]_vars
    /\ [][(Shrinking /\ pc = "while"
                /\ RLt(RMul(ScaleOf(i), epsscale), mineps)) =>
             /\ ievals = 2 /\ ievals' = 2
             /\ nwarn' = nwarn + 1
             /\ pc' = "for"
             /\ grads' = Put(grads, count, Zero)]_vars

\* A loop that used all of its K > 1 refinements and then was declared not
\* to converge.
C19_Witness ==
    /\ Shrinking
    /\ pc = "for"
    /\ nwarn > 0
    /\ At(grads, count - 1) = Zero
    /\ K(i) > 1
    /\ ievals = 2 + 2 * K(i)

\* An index of the cubic objective cut off after its first two calls.
C19_WitnessCutOff ==
    /\ Shrinking
    /\ pc = "for"
    /\ func = "Cubic"
    /\ RLt(RMul(ScaleOf(i), epsscale), mineps)
    /\ ievals = 2
    /\ nwarn > 0
    /\ At(grads, count - 1) = Zero

(***************************************************************************)
(* Shape reconciliation in UnsortedInterp2d.                               *)
(***************************************************************************)
\* The shape sh with size-1 dimensions appended until its rank is r.
RightPadded(sh, r) == sh \o [j \in 1..(r - Len(sh)) |-> 1]

\* Element k (from 0) of an array of shape `to`: the element of an array of
\* shape `from`, of no higher rank, whose dimensions are laid on the leading
\* dimensions of `to` and which is repeated along every other dimension and
\* along its own dimensions of size 1.
LeadingIndex(k, to, from) ==
    LET coord(j) == (k \div Size(SubSeq(to, j + 1, Len(to)))) % to[j]
        own(j) == IF from[j] = 1 THEN 0 ELSE coord(j)
        sum[j \in 0..Len(from)] ==
            IF j = 0 THEN 0
            ELSE sum[j - 1] + own(j) * Size(SubSeq(from, j + 1, Len(from)))
    IN  sum[Len(from)]

\* The call was rejected for the shapes of its arrays, before any evaluation.
ShapesRejected ==
    /\ ipc = "raised"
    /\ iraised = <<"ValueError", "incompatibly shaped arrays">>
    /\ calls = <<>>

\* C18: for multi-element arrays x and y of different rank the lower-rank
\* shape gets size-1 dimensions appended on its right until the ranks match.
\* When the two shapes then agree in every dimension up to sizes of 1, both
\* arrays are reconciled to the common shape, the lower-rank array laid on
\* the leading dimensions and repeated along the others; otherwise the call
\* is rejected as incompatibly shaped. Shapes (3,) and (3,4) reconcile to
\* (3,4), the rank-1 array constant along the last axis, and shapes (4,) and
\* (3,4) are rejected.
C18_RightPadding ==
    (ipc \notin {"idle", "sanitize"} /\ Multi(xin) /\ Multi(yin)
            /\ Len(xin.shape) # Len(yin.shape)) =>
        LET r == IF Len(xin.shape) > Len(yin.shape) THEN Len(xin.shape)
                 ELSE Len(yin.shape)
            px == RightPadded(xin.shape, r)
            py == RightPadded(yin.shape, r)
            to == [j \in 1..r |-> IF px[j] = 1 THEN py[j] ELSE px[j]]
        IN  /\ IF \A j \in 1..r : px[j] = py[j] \/ px[j] = 1 \/ py[j] = 1
               THEN /\ ~ShapesRejected
                    /\ x = Array(to, [k \in 1..Size(to) |->
                            xin.data[LeadingIndex(k - 1, to, px) + 1]])
                    /\ y = Array(to, [k \in 1..Size(to) |->
                            yin.data[LeadingIndex(k - 1, to, py) + 1]])
               ELSE ShapesRejected
            /\ (xin.shape = <<3>> /\ yin.shape = <<3, 4>>) =>
                    /\ x.shape = <<3, 4>>
                    /\ \A a \in 0..2 : \A b \in 1..4 :
                            x.data[4 * a + b] = xin.data[a + 1]
                    /\ y = yin
            /\ (xin.shape = <<4>> /\ yin.shape = <<3, 4>>) => ShapesRejected

\* The rank-1 array of shape (3,) met the array of shape (3,4) and the call
\* returned an array of shape (3,4).
C18_Witness ==
    /\ ipc = "done"
    /\ xin.shape = <<3>>
    /\ yin.shape = <<3, 4>>
    /\ x.shape = <<3, 4>>
    /\ output.shape = <<3, 4>>

\* A rank-1 array met an array of rank 3: two dimensions were appended.
C18_WitnessTwoAppended ==
    /\ ipc = "done"
    /\ xin.shape = <<2, 2, 2>>
    /\ yin.shape = <<2>>
    /\ y.shape = <<2, 2, 2>>

\* The arrays of shapes (4,) and (3,4) were rejected.
C18_WitnessRejected ==
    /\ ShapesRejected
    /\ xin.shape = <<4>>
    /\ yin.shape = <<3, 4>>
====
